---- MODULE Spec2Model ----
(***************************************************************************)
(* Verification model of the MediaLive / MediaPackage Terraform resources  *)
(* and of the EKS token ARN canonicalisation.                              *)
(*                                                                         *)
(*   Spec          the aws_media_live_channel resource: Create, Read,      *)
(*                 Update and Delete with their StateChangeConf waiters    *)
(*   SpecInput     the aws_media_live_input resource: Create, Read,        *)
(*                 Update and Delete                                       *)
(*   SpecEndpoint  the aws_media_package_origin_endpoint resource          *)
(*   SpecArn       token.Canonicalize as a pure function over ARN strings  *)
(*   SpecExpand    the list-valued expand functions of the channel         *)
(*                 resource                                                *)
(*                                                                         *)
(* The AWS control plane is the environment: every API call draws its      *)
(* outcome (an error code, or a response) from a small set, so that every  *)
(* interleaving with the remote side and with other actors is covered.     *)
(***************************************************************************)
EXTENDS Integers, Sequences, FiniteSets, TLC

VARIABLES
    pc,               \* position of the running CRUD handler
    op,               \* the CRUD handler that is running, "" when none
    d,                \* the schema.ResourceData of the resource
    ret,              \* what the handler returned: "" (not yet), "nil", "error"
    calls,            \* history: the API calls of the running handler, in order
    resp,             \* the response of the last successful Describe of a Read
    targetOccurence,  \* WaitForState: consecutive target observations
    notfoundTick,     \* WaitForState: consecutive nil results
    refreshed,        \* what the waiter's Refresh function returned last
    request,          \* the request of the handler's Create or Update call
    remote,           \* the channel as the handlers' calls have left it in AWS
    arnIn,            \* Canonicalize: the input string
    canon,            \* Canonicalize: the returned pair
    fn,               \* expand: the function applied
    cfg,              \* expand: the configuration list handed to it
    out               \* expand: the returned slice

vars == <<pc, op, d, ret, calls, resp, targetOccurence, notfoundTick,
          refreshed, request, remote, arnIn, canon, fn, cfg, out>>

resourceVars == <<pc, op, d, ret, calls, resp, targetOccurence, notfoundTick,
                  refreshed, request, remote>>
arnVars == <<arnIn, canon>>
expandVars == <<fn, cfg, out>>
pureVars == <<arnIn, canon, fn, cfg, out>>

(***************************************************************************)
(* Bounds of the model.                                                    *)
(***************************************************************************)
\* polls a waiter makes before only its timeout is left
MaxPolls == 7
\* polls the deletion waiter of an input makes before only its timeout is left
MaxDeletePolls == 3
\* destinations of an input in a DescribeInput response
MaxDestinations == 2
\* '/'-separated segments of an ARN's resource after the first one
MaxSegments == 3
\* elements of a configuration list handed to an expand function
MaxList == 3
\* elements of a list nested in an element of a configuration list
MaxNested == 1

(***************************************************************************)
(* Values shared by the resources.                                         *)
(***************************************************************************)
\* a *string of the SDK is <<>> when nil and <<s>> when it points to s
NilString == <<>>

\* aws.String: a pointer to s
String(s) == <<s>>

\* aws.StringValue: the pointed-to string, "" for a nil pointer
StringValue(p) == IF p = NilString THEN "" ELSE p[1]

ErrCodeNotFoundException == "NotFoundException"
ErrCodeInternalServerErrorException == "InternalServerErrorException"

\* the error codes an API call of the model can fail with
ApiErrors == {ErrCodeNotFoundException, ErrCodeInternalServerErrorException}

\* isAWSErr(err, code, ""): err is an awserr.Error carrying that code
isAWSErr(err, code) == err = code

\* keyvaluetags ... IgnoreAws(): the tags without the "aws:"-prefixed keys,
\* a tag key being <<prefix, name>>
IgnoreAws(tags) == {t \in tags : t[1] # "aws:"}

Last(s) == s[Len(s)]

\* the entries of the call history made by one part of a handler
CallsBy(who) == SelectSeq(calls, LAMBDA c : c.who = who)

(***************************************************************************)
(* resource.StateChangeConf.WaitForState (terraform-plugin-sdk,            *)
(* helper/resource/state.go): one round of its refresh loop.  r is what    *)
(* conf.Refresh returned, occ and nf are the loop's targetOccurence and    *)
(* notfoundTick.  The result says whether the loop goes on polling,        *)
(* finishes on the target or ends with an error.                           *)
(***************************************************************************)
WaitForState(conf, r, occ, nf) ==
    LET NotFoundChecks == IF conf.NotFoundChecks = 0 THEN 20 ELSE conf.NotFoundChecks
        Continuous == IF conf.ContinuousTargetOccurence = 0
                      THEN 1 ELSE conf.ContinuousTargetOccurence
    IN  IF r.err # ""
        THEN [status |-> "error", err |-> r.err, occ |-> occ, nf |-> nf]
        ELSE IF r.res = "nil" /\ conf.Target = {}
        THEN IF occ + 1 = Continuous
             THEN [status |-> "done", err |-> "", occ |-> occ + 1, nf |-> nf]
             ELSE [status |-> "continue", err |-> "", occ |-> occ + 1, nf |-> nf]
        ELSE IF r.res = "nil"
        THEN IF nf + 1 > NotFoundChecks
             THEN [status |-> "error", err |-> "NotFoundError", occ |-> occ, nf |-> nf + 1]
             ELSE [status |-> "continue", err |-> "", occ |-> occ, nf |-> nf + 1]
        ELSE IF r.state \in conf.Target /\ occ + 1 = Continuous
        THEN [status |-> "done", err |-> "", occ |-> occ + 1, nf |-> 0]
        ELSE LET hit == IF r.state \in conf.Target THEN occ + 1 ELSE occ
                 found == r.state \in conf.Target \/ r.state \in conf.Pending
             IN  IF ~found /\ conf.Pending # {}
                 THEN [status |-> "error", err |-> "UnexpectedStateError",
                       occ |-> hit, nf |-> 0]
                 ELSE [status |-> "continue", err |-> "",
                       occ |-> IF r.state \in conf.Pending THEN 0 ELSE hit, nf |-> 0]

\* fmt.Errorf("...: %s", err): a plain error, the awserr code of err is gone
Errorf(err) == "errorString"

(***************************************************************************)
(* aws_media_live_channel                                                  *)
(***************************************************************************)
ChannelStateDeleting == "DELETING"
ChannelStateDeleted == "DELETED"

\* the channel states DescribeChannel reports in the model
ChannelStates == {"CREATING", "CREATE_FAILED", "IDLE", "RUNNING", "UPDATING",
                  "DELETING", "DELETED"}

ChannelIds == {"ch-1", "ch-2"}

\* the configuration of a channel that is not created yet; the four nested
\* blocks are configured and stay as they are
NewChannel == [id |-> "", arn |-> "", name |-> "live", role_arn |-> "role-a",
               tags |-> {<<"", "env">>},
               channel_class |-> "STANDARD", log_level |-> "DISABLED",
               input_specification |-> <<"AVC">>,
               input_attachments |-> <<"attachment">>,
               destinations |-> <<"destination">>,
               encoder_settings |-> <<"settings">>]

\* a channel that is already in the Terraform state
KnownChannel == [NewChannel EXCEPT !.id = "ch-1", !.arn = "arn:ch-1"]

\* the descriptions DescribeChannel answers a Read with
ChannelDescriptions ==
    { [arn |-> "arn:ch-1", name |-> "live", role_arn |-> "role-a",
       tags |-> {<<"", "env">>}],
      [arn |-> "arn:ch-1", name |-> "renamed", role_arn |-> "role-b",
       tags |-> {<<"", "env">>, <<"aws:", "cloudformation">>}] }

NoResponse == [err |-> "none"]

\* no Refresh function has run, no request was sent, no channel in AWS
NoRefresh == [res |-> "", state |-> "", err |-> ""]
NoRequest == [api |-> ""]
NoRemote == [name |-> "", class |-> "", tags |-> {}]

\* d.GetOk of a block, and for a list len(v) > 0: the block is configured
GetOk(v) == v # <<>>

\* the request member an expand function makes of a configured block
Expanded(v) == IF GetOk(v) THEN <<"expanded", v>> ELSE <<>>

\* input of resourceAwsMediaLiveChannelCreate, data being d
CreateChannelInput(data) ==
    [api |-> "CreateChannel",
     ChannelClass |-> String(data.channel_class),
     Name |-> String(data.name),
     RoleArn |-> String(data.role_arn),
     LogLevel |-> String(data.log_level),
     InputSpecification |-> Expanded(data.input_specification),
     InputAttachments |-> Expanded(data.input_attachments),
     Destinations |-> Expanded(data.destinations),
     EncoderSettings |-> Expanded(data.encoder_settings),
     Tags |-> IF data.tags # {} THEN IgnoreAws(data.tags) ELSE {}]

\* a mutant of UpdateChannelInput: the tags and the class are sent as well
UpdateChannelInputWithTags(data) ==
    [api |-> "UpdateChannel",
     ChannelId |-> String(data.id),
     ChannelClass |-> String(data.channel_class),
     Name |-> String(data.name),
     RoleArn |-> String(data.role_arn),
     LogLevel |-> String(data.log_level),
     InputSpecification |-> Expanded(data.input_specification),
     InputAttachments |-> Expanded(data.input_attachments),
     Destinations |-> Expanded(data.destinations),
     EncoderSettings |-> Expanded(data.encoder_settings),
     Tags |-> IgnoreAws(data.tags)]

\* input of resourceAwsMediaLiveChannelUpdate, data being d
UpdateChannelInput(data) ==
    [api |-> "UpdateChannel",
     ChannelId |-> String(data.id),
     Name |-> String(data.name),
     RoleArn |-> String(data.role_arn),
     LogLevel |-> String(data.log_level),
     InputSpecification |-> Expanded(data.input_specification),
     InputAttachments |-> Expanded(data.input_attachments),
     Destinations |-> Expanded(data.destinations),
     EncoderSettings |-> Expanded(data.encoder_settings)]

\* the channel in AWS after a successful CreateChannel or UpdateChannel with
\* the request req, ch being the channel before: the members the request
\* carries are written, the others stay
Applied(req, ch) ==
    [name |-> IF "Name" \in DOMAIN req THEN StringValue(req.Name) ELSE ch.name,
     class |-> IF "ChannelClass" \in DOMAIN req
               THEN StringValue(req.ChannelClass) ELSE ch.class,
     tags |-> IF "Tags" \in DOMAIN req THEN req.Tags ELSE ch.tags]

\* an API call that failed with the error code e
Failed(e) == [err |-> e, nilOut |-> FALSE, state |-> NilString]

\* what DescribeChannel can answer a poll of a waiter with: an error, a channel
\* in some state, or nothing at all (mediaLiveChannelRefreshFunc tests for it;
\* the Refresh closures of Create, which would dereference it, are not given it)
DescribeChannelPolls ==
    {Failed(e) : e \in ApiErrors}
    \cup {[err |-> "", nilOut |-> FALSE, state |-> String(s)] : s \in ChannelStates}
    \cup {[err |-> "", nilOut |-> TRUE, state |-> NilString]}

\* what DescribeChannel can answer a Read with
DescribeChannelReads ==
    {[err |-> e, out |-> NoResponse] : e \in ApiErrors}
    \cup {[err |-> "", out |-> x] : x \in ChannelDescriptions}

\* the state a Describe call showed: "" when it failed or answered nothing
Observed(o) == IF o.err # "" \/ o.nilOut THEN "" ELSE StringValue(o.state)

\* an entry of the call history
Call(api, who, err, state) == [api |-> api, who |-> who, err |-> err, state |-> state]

\* the entry of the call history that a waiter's expired Timeout leaves: no
\* API call, WaitForState returns a TimeoutError
Expired == Call("", "timer", "TimeoutError", "")

\* a mutant of createStateConf: ContinuousTargetOccurence is left out
createStateConfOnce ==
    [Pending |-> {"CREATING"}, Target |-> {"IDLE"},
     NotFoundChecks |-> 0, ContinuousTargetOccurence |-> 0]

createStateConf ==
    [Pending |-> {"CREATING"}, Target |-> {"IDLE"},
     NotFoundChecks |-> 0, ContinuousTargetOccurence |-> 5]

\* a mutant of createStateConfRefresh: a failed DescribeChannel is taken for a
\* channel that is still CREATING
createStateConfRefreshHidesError(o) ==
    IF o.err # ""
    THEN [res |-> "obj", state |-> "CREATING", err |-> ""]
    ELSE [res |-> "obj", state |-> StringValue(o.state), err |-> ""]

\* the Refresh closure of createStateConf, o being DescribeChannel's answer
createStateConfRefresh(o) ==
    IF o.err # ""
    THEN [res |-> "obj", state |-> "", err |-> o.err]
    ELSE [res |-> "obj", state |-> StringValue(o.state), err |-> ""]

\* a mutant of CreateChannelResult: the error of CreateChannel is not checked
CreateChannelResultUnchecked(e, id) ==
    [d |-> [d EXCEPT !.id = IF e # "" THEN "" ELSE id], ret |-> "", pc |-> "create_wait"]

\* a mutant of CreateChannelResult: d.SetId is left for after the wait
CreateChannelResultNoSetId(e, id) ==
    IF e # ""
    THEN [d |-> d, ret |-> "error", pc |-> "done"]
    ELSE [d |-> d, ret |-> "", pc |-> "create_wait"]

\* what Create does with the answer of conn.CreateChannel: the error e, or the
\* Id of the created channel, which d.SetId stores
CreateChannelResult(e, id) ==
    IF e # ""
    THEN [d |-> d, ret |-> "error", pc |-> "done"]
    ELSE [d |-> [d EXCEPT !.id = id], ret |-> "", pc |-> "create_wait"]

\* resourceAwsMediaLiveChannelCreate up to the creation waiter
resourceAwsMediaLiveChannelCreate ==
    /\ pc = "idle" /\ d.id = ""
    /\ op' = "Create"
    /\ \E e \in ApiErrors \cup {""} : \E id \in ChannelIds :
         LET r == CreateChannelResult(e, id)
             input == CreateChannelInput(d)
         IN  /\ calls' = <<Call("CreateChannel", "op", e, IF e # "" THEN "" ELSE id)>>
             /\ request' = input
             /\ remote' = IF e # "" THEN remote ELSE Applied(input, NoRemote)
             /\ d' = r.d /\ ret' = r.ret /\ pc' = r.pc
    /\ targetOccurence' = 0 /\ notfoundTick' = 0
    /\ UNCHANGED <<resp, refreshed, pureVars>>

\* one poll of createStateConf.WaitForState()
createStateConfWaitForState ==
    /\ pc = "create_wait"
    /\ Len(CallsBy("waiter")) < MaxPolls
    /\ \E o \in DescribeChannelPolls :
         /\ ~o.nilOut
         /\ LET r == createStateConfRefresh(o)
                w == WaitForState(createStateConf, r, targetOccurence, notfoundTick)
            IN  /\ calls' = Append(calls, Call("DescribeChannel", "waiter", o.err, r.state))
                /\ targetOccurence' = w.occ
                /\ notfoundTick' = w.nf
                /\ refreshed' = r
                /\ pc' = CASE w.status = "continue" -> "create_wait"
                           [] w.status = "done" -> "create_read"
                           [] OTHER -> "done"
                /\ ret' = IF w.status = "error" THEN "error" ELSE ""
    /\ UNCHANGED <<op, d, resp, request, remote, pureVars>>

\* a mutant of createStateConfTimeout: the Timeout never expires
createStateConfNeverExpires ==
    /\ pc = "create_wait"
    /\ FALSE
    /\ UNCHANGED vars

\* the Timeout of createStateConf expires: WaitForState returns a TimeoutError
createStateConfTimeout ==
    /\ pc = "create_wait"
    /\ pc' = "done" /\ ret' = "error"
    /\ calls' = Append(calls, Expired)
    /\ UNCHANGED <<op, d, resp, targetOccurence, notfoundTick, refreshed, request,
                   remote, pureVars>>

\* a mutant of ChannelRead: every error of DescribeChannel clears the ID
ChannelReadAnyErrorClears(o) ==
    IF o.err # ""
    THEN [d |-> [d EXCEPT !.id = ""], ret |-> "nil", resp |-> resp]
    ELSE [d |-> [d EXCEPT !.arn = o.out.arn, !.name = o.out.name,
                          !.role_arn = o.out.role_arn,
                          !.tags = IgnoreAws(o.out.tags)],
          ret |-> "nil", resp |-> o.out]

\* the body of resourceAwsMediaLiveChannelRead for the answer o of DescribeChannel;
\* the provider has no ignore_tags configuration, so that IgnoreConfig keeps
\* every tag, and d.Set of a string map does not fail
ChannelRead(o) ==
    IF o.err # ""
    THEN IF isAWSErr(o.err, ErrCodeNotFoundException)
         THEN [d |-> [d EXCEPT !.id = ""], ret |-> "nil", resp |-> resp]
         ELSE [d |-> d, ret |-> "error", resp |-> resp]
    ELSE [d |-> [d EXCEPT !.arn = o.out.arn, !.name = o.out.name,
                          !.role_arn = o.out.role_arn,
                          !.tags = IgnoreAws(o.out.tags)],
          ret |-> "nil", resp |-> o.out]

\* return resourceAwsMediaLiveChannelRead(d, meta), the last line of Create
resourceAwsMediaLiveChannelCreateRead ==
    /\ pc = "create_read"
    /\ \E o \in DescribeChannelReads :
         LET r == ChannelRead(o)
         IN  /\ d' = r.d /\ ret' = r.ret /\ resp' = r.resp
             /\ calls' = Append(calls, Call("DescribeChannel", "read", o.err, ""))
    /\ pc' = "done"
    /\ UNCHANGED <<op, targetOccurence, notfoundTick, refreshed, request, remote,
                   pureVars>>

\* Read called by the framework on a resource of the state
resourceAwsMediaLiveChannelRead ==
    /\ pc = "idle" /\ d.id # ""
    /\ op' = "Read"
    /\ \E o \in DescribeChannelReads :
         LET r == ChannelRead(o)
         IN  /\ d' = r.d /\ ret' = r.ret /\ resp' = r.resp
             /\ calls' = <<Call("DescribeChannel", "read", o.err, "")>>
    /\ pc' = "done"
    /\ UNCHANGED <<targetOccurence, notfoundTick, refreshed, request, remote,
                   pureVars>>

\* conn.DeleteChannel
resourceAwsMediaLiveChannelDelete ==
    /\ pc = "idle" /\ d.id # ""
    /\ op' = "Delete"
    /\ \E e \in ApiErrors \cup {""} :
         /\ calls' = <<Call("DeleteChannel", "op", e, "")>>
         /\ remote' = IF e # "" THEN remote ELSE NoRemote
         /\ IF e # ""
            THEN /\ pc' = "done"
                 /\ ret' = IF isAWSErr(e, ErrCodeNotFoundException) THEN "nil" ELSE "error"
            ELSE /\ pc' = "delete_wait" /\ ret' = ""
    /\ targetOccurence' = 0 /\ notfoundTick' = 0
    /\ UNCHANGED <<d, resp, refreshed, request, pureVars>>

\* a mutant of deleteStateConf: DELETING is taken for a target state
deleteStateConfDeletingIsTarget ==
    [Pending |-> {ChannelStateDeleting},
     Target |-> {ChannelStateDeleting, ChannelStateDeleted},
     NotFoundChecks |-> 1, ContinuousTargetOccurence |-> 0]

\* the StateChangeConf of waitForMediaLiveChannelDeletion
deleteStateConf ==
    [Pending |-> {ChannelStateDeleting}, Target |-> {ChannelStateDeleted},
     NotFoundChecks |-> 1, ContinuousTargetOccurence |-> 0]

\* a mutant of mediaLiveChannelRefreshFunc: NotFoundException is an error like
\* the others
mediaLiveChannelRefreshFuncNotFoundFails(o) ==
    IF o.err # ""
    THEN [res |-> "nil", state |-> "", err |-> Errorf(o.err)]
    ELSE IF o.nilOut
    THEN [res |-> "nil", state |-> ChannelStateDeleted, err |-> ""]
    ELSE [res |-> "obj", state |-> StringValue(o.state), err |-> ""]

\* the closure mediaLiveChannelRefreshFunc returns, o being DescribeChannel's
\* answer
mediaLiveChannelRefreshFunc(o) ==
    IF isAWSErr(o.err, ErrCodeNotFoundException)
    THEN [res |-> "nil", state |-> ChannelStateDeleted, err |-> ""]
    ELSE IF o.err # ""
    THEN [res |-> "nil", state |-> "", err |-> Errorf(o.err)]
    ELSE IF o.nilOut
    THEN [res |-> "nil", state |-> ChannelStateDeleted, err |-> ""]
    ELSE [res |-> "obj", state |-> StringValue(o.state), err |-> ""]

\* what waitForMediaLiveChannelDeletion makes of the error of WaitForState
waitForMediaLiveChannelDeletion(err) ==
    IF err # "" /\ isAWSErr(err, ErrCodeNotFoundException) THEN "" ELSE err

\* what Delete returns for the error of waitForMediaLiveChannelDeletion
DeleteReturn(err) == IF err # "" THEN "error" ELSE "nil"

\* one poll of the WaitForState of waitForMediaLiveChannelDeletion
waitForMediaLiveChannelDeletionPoll ==
    /\ pc = "delete_wait"
    /\ Len(CallsBy("waiter")) < MaxPolls
    /\ \E o \in DescribeChannelPolls :
         LET r == mediaLiveChannelRefreshFunc(o)
             w == WaitForState(deleteStateConf, r, targetOccurence, notfoundTick)
         IN  /\ calls' = Append(calls, Call("DescribeChannel", "waiter", o.err, Observed(o)))
             /\ targetOccurence' = w.occ
             /\ notfoundTick' = w.nf
             /\ refreshed' = r
             /\ IF w.status = "continue"
                THEN pc' = "delete_wait" /\ ret' = ""
                ELSE pc' = "done"
                     /\ ret' = DeleteReturn(waitForMediaLiveChannelDeletion(w.err))
    /\ UNCHANGED <<op, d, resp, request, remote, pureVars>>

\* the 30 minutes of the deletion waiter expire
waitForMediaLiveChannelDeletionTimeout ==
    /\ pc = "delete_wait"
    /\ pc' = "done"
    /\ ret' = DeleteReturn(waitForMediaLiveChannelDeletion("TimeoutError"))
    /\ calls' = Append(calls, Expired)
    /\ UNCHANGED <<op, d, resp, targetOccurence, notfoundTick, refreshed, request,
                   remote, pureVars>>

\* the configurations Update can be called with: name, tags and channel_class
\* as planned
ChannelChanges ==
    [name : {"live", "renamed"},
     tags : {{<<"", "env">>}, {<<"", "env">>, <<"", "team">>}},
     channel_class : {"STANDARD", "SINGLE_PIPELINE"}]

\* a mutant of updateStateConf: ContinuousTargetOccurence is left out
updateStateConfOnce ==
    [Pending |-> {"UPDATING"}, Target |-> {"IDLE"},
     NotFoundChecks |-> 0, ContinuousTargetOccurence |-> 0]

updateStateConf ==
    [Pending |-> {"UPDATING"}, Target |-> {"IDLE"},
     NotFoundChecks |-> 0, ContinuousTargetOccurence |-> 5]

\* the Refresh closure of updateStateConf, o being DescribeChannel's answer
updateStateConfRefresh(o) ==
    IF o.err # ""
    THEN [res |-> "obj", state |-> "", err |-> o.err]
    ELSE [res |-> "obj", state |-> StringValue(o.state), err |-> ""]

\* resourceAwsMediaLiveChannelUpdate up to its waiter: the framework calls it
\* with a configuration that differs from the state
resourceAwsMediaLiveChannelUpdate ==
    /\ pc = "idle" /\ d.id # ""
    /\ op' = "Update"
    /\ \E c \in ChannelChanges : \E e \in ApiErrors \cup {""} :
         LET planned == [d EXCEPT !.name = c.name, !.tags = c.tags,
                                  !.channel_class = c.channel_class]
             input == UpdateChannelInput(planned)
         IN  /\ planned # d
             /\ d' = planned
             /\ calls' = <<Call("UpdateChannel", "op", e, "")>>
             /\ request' = input
             /\ remote' = IF e # "" THEN remote ELSE Applied(input, remote)
             /\ IF e # ""
                THEN pc' = "done" /\ ret' = "error"
                ELSE pc' = "update_wait" /\ ret' = ""
    /\ targetOccurence' = 0 /\ notfoundTick' = 0
    /\ UNCHANGED <<resp, refreshed, pureVars>>

\* one poll of updateStateConf.WaitForState()
updateStateConfWaitForState ==
    /\ pc = "update_wait"
    /\ Len(CallsBy("waiter")) < MaxPolls
    /\ \E o \in DescribeChannelPolls :
         /\ ~o.nilOut
         /\ LET r == updateStateConfRefresh(o)
                w == WaitForState(updateStateConf, r, targetOccurence, notfoundTick)
            IN  /\ calls' = Append(calls, Call("DescribeChannel", "waiter", o.err, r.state))
                /\ targetOccurence' = w.occ
                /\ notfoundTick' = w.nf
                /\ refreshed' = r
                /\ pc' = CASE w.status = "continue" -> "update_wait"
                           [] w.status = "done" -> "update_read"
                           [] OTHER -> "done"
                /\ ret' = IF w.status = "error" THEN "error" ELSE ""
    /\ UNCHANGED <<op, d, resp, request, remote, pureVars>>

\* the Timeout of updateStateConf expires: WaitForState returns a TimeoutError
updateStateConfTimeout ==
    /\ pc = "update_wait"
    /\ pc' = "done" /\ ret' = "error"
    /\ calls' = Append(calls, Expired)
    /\ UNCHANGED <<op, d, resp, targetOccurence, notfoundTick, refreshed, request,
                   remote, pureVars>>

\* return resourceAwsMediaLiveChannelRead(d, meta), the last line of Update
resourceAwsMediaLiveChannelUpdateRead ==
    /\ pc = "update_read"
    /\ \E o \in DescribeChannelReads :
         LET r == ChannelRead(o)
         IN  /\ d' = r.d /\ ret' = r.ret /\ resp' = r.resp
             /\ calls' = Append(calls, Call("DescribeChannel", "read", o.err, ""))
    /\ pc' = "done"
    /\ UNCHANGED <<op, targetOccurence, notfoundTick, refreshed, request, remote,
                   pureVars>>

\* the handler has returned and the framework is free to call the next one; a
\* resource without an ID, or one that was deleted, is gone from the state
ChannelReturn ==
    /\ pc = "done"
    /\ pc' = "idle" /\ op' = "" /\ ret' = "" /\ calls' = <<>>
    /\ resp' = NoResponse
    /\ targetOccurence' = 0 /\ notfoundTick' = 0
    /\ refreshed' = NoRefresh /\ request' = NoRequest
    /\ LET gone == d.id = "" \/ (op = "Delete" /\ ret = "nil")
       IN  /\ d' = IF gone THEN NewChannel ELSE d
           /\ remote' = IF gone THEN NoRemote ELSE remote
    /\ UNCHANGED pureVars

\* the variables of the pure-function specifications, at rest
NoResult == [val |-> <<>>, err |-> "none"]
NoSlice == [returned |-> FALSE]

PureAtRest ==
    /\ arnIn = <<>> /\ canon = NoResult
    /\ fn = "" /\ cfg = <<>> /\ out = NoSlice

ResourceAtRest ==
    /\ pc = "idle" /\ op = "" /\ ret = "" /\ calls = <<>>
    /\ resp = NoResponse
    /\ targetOccurence = 0 /\ notfoundTick = 0
    /\ refreshed = NoRefresh /\ request = NoRequest

Init ==
    /\ ResourceAtRest
    /\ d \in {NewChannel, KnownChannel}
    /\ remote = IF d.id = "" THEN NoRemote ELSE Applied(CreateChannelInput(d), NoRemote)
    /\ PureAtRest

Next ==
    \/ resourceAwsMediaLiveChannelCreate
    \/ createStateConfWaitForState
    \/ createStateConfTimeout
    \/ resourceAwsMediaLiveChannelCreateRead
    \/ resourceAwsMediaLiveChannelRead
    \/ resourceAwsMediaLiveChannelUpdate
    \/ updateStateConfWaitForState
    \/ updateStateConfTimeout
    \/ resourceAwsMediaLiveChannelUpdateRead
    \/ resourceAwsMediaLiveChannelDelete
    \/ waitForMediaLiveChannelDeletionPoll
    \/ waitForMediaLiveChannelDeletionTimeout
    \/ ChannelReturn

Spec == Init /\ [][Next]_vars

\* Spec with the progress the code's scheduling gives: time passes, so that a
\* waiter that is still polling reaches its Timeout, and the DescribeChannel
\* call of a final Read returns.  Nothing is assumed about the polls.
SpecLive ==
    /\ Spec
    /\ WF_vars(createStateConfTimeout)
    /\ WF_vars(updateStateConfTimeout)
    /\ WF_vars(waitForMediaLiveChannelDeletionTimeout)
    /\ WF_vars(resourceAwsMediaLiveChannelCreateRead)
    /\ WF_vars(resourceAwsMediaLiveChannelUpdateRead)

(***************************************************************************)
(* Claims about the channel resource.                                      *)
(***************************************************************************)
\* the polls of the running handler's waiter
WaiterCalls == CallsBy("waiter")

\* the DescribeChannel calls of the running handler, by the waiter or by Read
DescribeCalls == SelectSeq(calls, LAMBDA c : c.api = "DescribeChannel")

\* C1: Create is past its waiter (it runs the final Read, or has returned nil)
\* only if CreateChannel succeeded and the last 5 polls of the waiter all
\* showed IDLE; so a CREATING in between resets the count and the last state
\* the waiter saw is never CREATING.
C1_CreateAfterFiveIdle ==
    (op = "Create" /\ (ret = "nil" \/ pc = "create_read")) =>
        /\ calls[1].api = "CreateChannel" /\ calls[1].err = ""
        /\ Len(WaiterCalls) >= 5
        /\ \A i \in (Len(WaiterCalls) - 4)..Len(WaiterCalls) :
               WaiterCalls[i].err = "" /\ WaiterCalls[i].state = "IDLE"

\* Create has returned nil although the waiter saw CREATING after some IDLE
C1_Witness ==
    /\ op = "Create" /\ ret = "nil" /\ d.id # ""
    /\ \E i, j \in 1..Len(WaiterCalls) :
           i < j /\ WaiterCalls[i].state = "IDLE" /\ WaiterCalls[j].state = "CREATING"

\* a step that is resourceAwsMediaLiveChannelRead, called by the framework or
\* at the end of Create or Update
ChannelReadStep ==
    /\ pc \in {"idle", "create_read", "update_read"} /\ pc' = "done"
    /\ Last(calls').who = "read"

\* C2: a Read that gets NotFoundException clears the ID and returns nil; one
\* that gets another error returns an error and leaves ID and attributes as
\* they were; one that succeeds sets arn, name, role_arn and tags from the
\* response and leaves the ID as it was.
C2_ReadOutcomes ==
    [][ChannelReadStep =>
          LET e == Last(calls').err
          IN  /\ e = ErrCodeNotFoundException => d'.id = "" /\ ret' = "nil"
              /\ e \notin {"", ErrCodeNotFoundException} => ret' = "error" /\ d' = d
              /\ e = "" => /\ ret' = "nil" /\ d'.id = d.id
                           /\ d'.arn = resp'.arn /\ d'.name = resp'.name
                           /\ d'.role_arn = resp'.role_arn
                           /\ d'.tags = IgnoreAws(resp'.tags)]_vars

\* a Read has failed with an error other than NotFoundException on a resource
\* that keeps its ID
C2_Witness ==
    /\ op = "Read" /\ ret = "error" /\ d.id # ""
    /\ Last(calls).err = ErrCodeInternalServerErrorException

\* C3: Delete returns nil only if DeleteChannel failed with NotFoundException,
\* or DeleteChannel succeeded and the last poll of the deletion waiter showed
\* the channel in state DELETED.
C3_DeleteNilOnlyWhenDeleted ==
    (op = "Delete" /\ ret = "nil") =>
        \/ /\ Len(calls) = 1
           /\ calls[1].api = "DeleteChannel"
           /\ calls[1].err = ErrCodeNotFoundException
        \/ /\ calls[1].api = "DeleteChannel" /\ calls[1].err = ""
           /\ WaiterCalls # <<>>
           /\ Last(WaiterCalls).err = ""
           /\ Last(WaiterCalls).state = ChannelStateDeleted

\* Delete has returned nil after the waiter saw DELETING and then DELETED
C3_Witness ==
    /\ op = "Delete" /\ ret = "nil"
    /\ \E i \in 1..Len(WaiterCalls) : WaiterCalls[i].state = ChannelStateDeleting
    /\ Last(WaiterCalls).state = ChannelStateDeleted

\* C10: when CreateChannel fails, Create has returned an error, the ID is
\* unset and no DescribeChannel call was made.
C10_CreateChannelError ==
    (op = "Create" /\ calls[1].err # "") =>
        /\ pc = "done" /\ ret = "error"
        /\ d.id = ""
        /\ DescribeCalls = <<>>

\* CreateChannel has failed
C10_Witness ==
    /\ op = "Create" /\ pc = "done"
    /\ calls[1].api = "CreateChannel"
    /\ calls[1].err = ErrCodeInternalServerErrorException

\* C11: in Create, a poll of the creation waiter that failed, or that showed a
\* state other than CREATING and IDLE, is the last thing Create did: it has
\* returned an error at once, without a further poll and without the final
\* Read.
C11_CreateWaitFailsAtOnce ==
    op = "Create" =>
        \A i \in 1..Len(calls) :
            (/\ calls[i].who = "waiter"
             /\ calls[i].err # "" \/ calls[i].state \notin {"CREATING", "IDLE"}) =>
                /\ i = Len(calls)
                /\ pc = "done" /\ ret = "error"
                /\ CallsBy("read") = <<>>

\* the creation waiter saw IDLE and then CREATE_FAILED
C11_Witness ==
    /\ op = "Create" /\ pc = "done"
    /\ Len(WaiterCalls) >= 2
    /\ WaiterCalls[1].state = "IDLE"
    /\ Last(WaiterCalls).state = "CREATE_FAILED"

\* C12: when CreateChannel succeeded and Create has returned an error, the ID
\* is the Id of the created channel.
C12_IdKeptOnError ==
    (op = "Create" /\ ret = "error" /\ calls[1].err = "") =>
        d.id # "" /\ d.id = calls[1].state

\* Create has returned an error because the creation wait timed out
C12_Witness ==
    /\ op = "Create" /\ ret = "error" /\ d.id = "ch-2"
    /\ Len(calls) >= 3 /\ Last(calls) = Expired

\* C13: when Create has returned nil, the ID is not empty and is the Id that
\* CreateChannel returned.
C13_NilCreateHasId ==
    (op = "Create" /\ ret = "nil") =>
        d.id # "" /\ d.id = calls[1].state

C15_VanishedChannelIsDeleted ==
    (/\ op = "Delete" /\ pc = "done" /\ calls[1].err = ""
     /\ WaiterCalls # <<>> /\ Last(calls) # Expired
     /\ \A i \in 1..Len(WaiterCalls) : WaiterCalls[i].err = ErrCodeNotFoundException) =>
        ret = "nil"

\* a poll of the update waiter that ends the wait with an error
UpdateWaitFailure(c) ==
    \/ c = Expired
    \/ c.who = "waiter" /\ (c.err # "" \/ c.state \notin {"UPDATING", "IDLE"})

\* C16: the calls of Update are UpdateChannel, then DescribeChannel polls of
\* the waiter, then the DescribeChannel of the final Read.  When UpdateChannel
\* failed there is no other call and Update has returned an error; when the
\* wait failed Update has returned an error without the Read; the Read is made
\* once, after the last 5 polls all showed IDLE.
C16_UpdateOrder ==
    op = "Update" =>
        /\ calls[1].api = "UpdateChannel" /\ calls[1].who = "op"
        /\ calls[1].err # "" => Len(calls) = 1 /\ pc = "done" /\ ret = "error"
        /\ \A i \in 2..Len(calls) :
               /\ calls[i].who \in {"waiter", "timer", "read"}
               /\ calls[i].who # "timer" => calls[i].api = "DescribeChannel"
               /\ calls[i].who = "read" => i = Len(calls) /\ pc = "done"
               /\ UpdateWaitFailure(calls[i]) =>
                      /\ i = Len(calls) /\ pc = "done" /\ ret = "error"
                      /\ CallsBy("read") = <<>>
        /\ (pc = "update_read" \/ CallsBy("read") # <<>>) =>
               /\ Len(WaiterCalls) >= 5
               /\ \A i \in (Len(WaiterCalls) - 4)..Len(WaiterCalls) :
                      WaiterCalls[i].err = "" /\ WaiterCalls[i].state = "IDLE"

\* Update has returned nil after its waiter saw UPDATING and then IDLE
C16_Witness ==
    /\ op = "Update" /\ ret = "nil"
    /\ WaiterCalls # <<>> /\ WaiterCalls[1].state = "UPDATING"
    /\ Last(calls).who = "read" /\ Last(calls).err = ""

\* the members of the request of UpdateChannel
UpdateChannelMembers ==
    {"api", "ChannelId", "Name", "RoleArn", "LogLevel", "InputSpecification",
     "InputAttachments", "Destinations", "EncoderSettings"}

\* C17: no step of Update changes the class or the tags of the channel in
\* AWS; the only mutating call of Update is UpdateChannel, and its request
\* carries ChannelId, Name, RoleArn, LogLevel and the four expanded blocks.
C17_UpdateKeepsClassAndTags ==
    /\ [][op' = "Update" =>
             remote'.class = remote.class /\ remote'.tags = remote.tags]_vars
    /\ [](op = "Update" =>
             /\ DOMAIN request = UpdateChannelMembers
             /\ \A i \in 1..Len(calls) :
                    calls[i].api \in {"UpdateChannel", "DescribeChannel", ""}
             /\ \A i \in 2..Len(calls) : calls[i].api # "UpdateChannel")

\* UpdateChannel has succeeded for a configuration whose tags and class are
\* not those of the channel in AWS
C17_Witness ==
    /\ op = "Update" /\ calls[1].err = "" /\ pc = "update_wait"
    /\ d.name = remote.name
    /\ d.tags # remote.tags /\ d.channel_class # remote.class

\* the positions of a handler that waits, or is past its wait and before its
\* final Read
Waiting == {"create_wait", "update_wait", "delete_wait", "create_read", "update_read"}

InputStates == {"CREATING", "DETACHED", "ATTACHED", "DELETING", "DELETED"}

InputIds == {"in-1", "in-2"}

\* the sequences over S of length n at most
SeqsUpTo(S, n) == UNION {[1..k -> S] : k \in 0..n}

\* the URLs of the model: what precedes the path, and the path character by
\* character ("/" and the stream name)
Urls == { [base |-> "rtmp://10.0.0.1:1935", path |-> <<"/", "live">>],
          [base |-> "rtmp://10.0.0.2:1935", path |-> <<"/", "backup">>] }

\* the medialive.InputDestination values of a DescribeInput response
InputDestinations ==
    [Ip : {String("10.0.0.1"), NilString}, Port : {String("1935")},
     Url : {String(u) : u \in Urls}]

\* url.Parse(*streamUrl) and resp.Path[1:len(resp.Path)]: the path without
\* its first character.  The URLs of the model are not nil and have a path;
\* on the others the function panics.
obtainStreamName(streamUrl) == Tail(streamUrl[1].path)

RECURSIVE flattenInputDestinationsFrom(_, _)
\* the loop of flattenInputDestinations: result after the destinations from i on
\* were appended
flattenInputDestinationsFrom(inputDestinations, i) ==
    IF i > Len(inputDestinations) THEN <<>>
    ELSE LET destination == inputDestinations[i]
             r == [url |-> StringValue(destination.Url),
                   port |-> StringValue(destination.Ip),
                   ip |-> StringValue(destination.Port),
                   stream_name |-> obtainStreamName(destination.Url)]
         IN  <<r>> \o flattenInputDestinationsFrom(inputDestinations, i + 1)

flattenInputDestinations(inputDestinations) ==
    flattenInputDestinationsFrom(inputDestinations, 1)

\* the configuration of an input that is not created yet; its computed url is
\* the empty URL
NewInput == [id |-> "", arn |-> "", name |-> "feed", tags |-> {<<"", "env">>},
             input_security_groups |-> <<"sg-1">>,
             destinations |-> <<[url |-> [base |-> "", path |-> <<>>],
                                 port |-> "", ip |-> "",
                                 stream_name |-> <<"live">>]>>]

\* an input that is already in the Terraform state
KnownInput == [NewInput EXCEPT !.id = "in-1", !.arn = "arn:in-1"]

\* the descriptions DescribeInput answers a Read with
InputDescriptions ==
    [Arn : {String("arn:in-1")}, Name : {String("feed")}, Tags : {{<<"", "env">>}},
     Destinations : SeqsUpTo(InputDestinations, MaxDestinations)]

\* what DescribeInput can answer a poll of a waiter with
DescribeInputPolls ==
    {Failed(e) : e \in ApiErrors}
    \cup {[err |-> "", nilOut |-> FALSE, state |-> String(s)] : s \in InputStates}
    \cup {[err |-> "", nilOut |-> TRUE, state |-> NilString]}

\* what DescribeInput can answer a Read with
DescribeInputReads ==
    {[err |-> e, out |-> NoResponse] : e \in ApiErrors}
    \cup {[err |-> "", out |-> x] : x \in InputDescriptions}

\* a mutant of inputCreateStateConf: DELETING is taken for a pending state
inputCreateStateConfDeletingPends ==
    [Pending |-> {"CREATING", "DELETING"}, Target |-> {"DETACHED", "ATTACHED"},
     NotFoundChecks |-> 0, ContinuousTargetOccurence |-> 5]

\* createStateConf of resourceAwsMediaLiveInputCreate
inputCreateStateConf ==
    [Pending |-> {"CREATING"}, Target |-> {"DETACHED", "ATTACHED"},
     NotFoundChecks |-> 0, ContinuousTargetOccurence |-> 5]

\* the Refresh closure of inputCreateStateConf, o being DescribeInput's answer
inputCreateStateConfRefresh(o) ==
    IF o.err # ""
    THEN [res |-> "obj", state |-> "", err |-> o.err]
    ELSE [res |-> "obj", state |-> StringValue(o.state), err |-> ""]

\* what Create does with the answer of conn.CreateInput
CreateInputResult(e, id) ==
    IF e # ""
    THEN [d |-> d, ret |-> "error", pc |-> "done"]
    ELSE [d |-> [d EXCEPT !.id = id], ret |-> "", pc |-> "create_wait"]

\* resourceAwsMediaLiveInputCreate up to the creation waiter
resourceAwsMediaLiveInputCreate ==
    /\ pc = "idle" /\ d.id = ""
    /\ op' = "Create"
    /\ \E e \in ApiErrors \cup {""} : \E id \in InputIds :
         LET r == CreateInputResult(e, id)
         IN  /\ calls' = <<Call("CreateInput", "op", e, IF e # "" THEN "" ELSE id)>>
             /\ d' = r.d /\ ret' = r.ret /\ pc' = r.pc
    /\ targetOccurence' = 0 /\ notfoundTick' = 0
    /\ UNCHANGED <<resp, refreshed, request, remote, pureVars>>

\* one poll of the createStateConf.WaitForState() of the input
inputCreateStateConfWaitForState ==
    /\ pc = "create_wait"
    /\ Len(CallsBy("waiter")) < MaxPolls
    /\ \E o \in DescribeInputPolls :
         /\ ~o.nilOut
         /\ LET r == inputCreateStateConfRefresh(o)
                w == WaitForState(inputCreateStateConf, r, targetOccurence, notfoundTick)
            IN  /\ calls' = Append(calls, Call("DescribeInput", "waiter", o.err, Observed(o)))
                /\ targetOccurence' = w.occ
                /\ notfoundTick' = w.nf
                /\ refreshed' = r
                /\ pc' = CASE w.status = "continue" -> "create_wait"
                           [] w.status = "done" -> "create_read"
                           [] OTHER -> "done"
                /\ ret' = IF w.status = "error" THEN "error" ELSE ""
    /\ UNCHANGED <<op, d, resp, request, remote, pureVars>>

\* the Timeout of the input's createStateConf expires
inputCreateStateConfTimeout ==
    /\ pc = "create_wait"
    /\ pc' = "done" /\ ret' = "error"
    /\ calls' = Append(calls, Expired)
    /\ UNCHANGED <<op, d, resp, targetOccurence, notfoundTick, refreshed, request,
                   remote, pureVars>>

\* the body of resourceAwsMediaLiveInputRead for the answer o of DescribeInput;
\* "type" and "input_class", which Read also sets, are not part of the model
InputRead(o) ==
    IF o.err # ""
    THEN IF isAWSErr(o.err, ErrCodeNotFoundException)
         THEN [d |-> [d EXCEPT !.id = ""], ret |-> "nil", resp |-> resp]
         ELSE [d |-> d, ret |-> "error", resp |-> resp]
    ELSE [d |-> [d EXCEPT !.destinations = flattenInputDestinations(o.out.Destinations),
                          !.arn = StringValue(o.out.Arn),
                          !.name = StringValue(o.out.Name),
                          !.tags = IgnoreAws(o.out.Tags)],
          ret |-> "nil", resp |-> o.out]

\* return resourceAwsMediaLiveInputRead(d, meta), the last line of Create
resourceAwsMediaLiveInputCreateRead ==
    /\ pc = "create_read"
    /\ \E o \in DescribeInputReads :
         LET r == InputRead(o)
         IN  /\ d' = r.d /\ ret' = r.ret /\ resp' = r.resp
             /\ calls' = Append(calls, Call("DescribeInput", "read", o.err, ""))
    /\ pc' = "done"
    /\ UNCHANGED <<op, targetOccurence, notfoundTick, refreshed, request, remote,
                   pureVars>>

\* Read called by the framework on an input of the state
resourceAwsMediaLiveInputRead ==
    /\ pc = "idle" /\ d.id # ""
    /\ op' = "Read"
    /\ \E o \in DescribeInputReads :
         LET r == InputRead(o)
         IN  /\ d' = r.d /\ ret' = r.ret /\ resp' = r.resp
             /\ calls' = <<Call("DescribeInput", "read", o.err, "")>>
    /\ pc' = "done"
    /\ UNCHANGED <<targetOccurence, notfoundTick, refreshed, request, remote,
                   pureVars>>

\* the configurations Update can be called with: name, input_security_groups
\* and tags as planned, and the stream_name planned for every entry of
\* destinations
InputChanges ==
    [name : {"feed", "renamed"},
     input_security_groups : {<<"sg-1">>, <<"sg-2">>},
     stream_name : {<<"live">>, <<"main">>},
     tags : {{<<"", "env">>}, {<<"", "env">>, <<"", "team">>}}]

\* the resource data Update is called with for the planned configuration c:
\* the computed members of destinations stay as they are in the state
Planned(c) ==
    [d EXCEPT !.name = c.name,
              !.input_security_groups = c.input_security_groups,
              !.tags = c.tags,
              !.destinations = [i \in 1..Len(d.destinations) |->
                                   [d.destinations[i] EXCEPT !.stream_name = c.stream_name]]]

\* d.HasChange(key), old being the state and new the planned configuration:
\* the values of a key that is not an attribute of the resource are both the
\* zero value, which is no change
HasChange(key, old, new) == key \in DOMAIN old /\ old[key] # new[key]

expandInputDestinations(destinations) ==
    IF Len(destinations) = 0 THEN <<>>
    ELSE [i \in 1..Len(destinations) |->
             [StreamName |-> String(destinations[i].stream_name)]]

convertInputSecurityGroups(raw) == [i \in 1..Len(raw) |-> String(raw[i])]

\* input of resourceAwsMediaLiveInputUpdate, old being the state and new the
\* planned configuration; a member that is not set is nil
UpdateInputInput(old, new) ==
    [api |-> "UpdateInput",
     InputId |-> String(new.id),
     Name |-> IF HasChange("name", old, new) THEN String(new.name) ELSE NilString,
     Destinations |-> IF HasChange("stream_name", old, new) /\ GetOk(new.destinations)
                      THEN expandInputDestinations(new.destinations) ELSE <<>>,
     InputSecurityGroups |->
         IF HasChange("input_security_groups", old, new)
            /\ GetOk(new.input_security_groups)
         THEN convertInputSecurityGroups(new.input_security_groups) ELSE <<>>]

\* resourceAwsMediaLiveInputUpdate up to conn.UpdateInput: the framework calls
\* it with a configuration that differs from the state
resourceAwsMediaLiveInputUpdate ==
    /\ pc = "idle" /\ d.id # ""
    /\ op' = "Update"
    /\ \E c \in InputChanges : \E e \in ApiErrors \cup {""} :
         LET new == Planned(c)
         IN  /\ new # d
             /\ request' = UpdateInputInput(d, new)
             /\ calls' = <<Call("UpdateInput", "op", e, "")>>
             /\ IF e # ""
                THEN IF isAWSErr(e, ErrCodeNotFoundException)
                     THEN d' = [new EXCEPT !.id = ""] /\ ret' = "nil" /\ pc' = "done"
                     ELSE d' = new /\ ret' = "error" /\ pc' = "done"
                ELSE /\ d' = new /\ ret' = ""
                     /\ pc' = IF HasChange("tags", d, new)
                              THEN "update_tags" ELSE "update_read"
    /\ targetOccurence' = 0 /\ notfoundTick' = 0
    /\ UNCHANGED <<resp, refreshed, remote, pureVars>>

\* keyvaluetags.MedialiveUpdateTags of Update, when the tags have changed
resourceAwsMediaLiveInputUpdateTags ==
    /\ pc = "update_tags"
    /\ \E e \in ApiErrors \cup {""} :
         /\ calls' = Append(calls, Call("UpdateTags", "op", e, ""))
         /\ IF e # ""
            THEN pc' = "done" /\ ret' = "error"
            ELSE pc' = "update_read" /\ ret' = ""
    /\ UNCHANGED <<op, d, resp, targetOccurence, notfoundTick, refreshed, request,
                   remote, pureVars>>

\* return resourceAwsMediaLiveInputRead(d, meta), the last line of Update
resourceAwsMediaLiveInputUpdateRead ==
    /\ pc = "update_read"
    /\ \E o \in DescribeInputReads :
         LET r == InputRead(o)
         IN  /\ d' = r.d /\ ret' = r.ret /\ resp' = r.resp
             /\ calls' = Append(calls, Call("DescribeInput", "read", o.err, ""))
    /\ pc' = "done"
    /\ UNCHANGED <<op, targetOccurence, notfoundTick, refreshed, request, remote,
                   pureVars>>

InputStateDeleted == "DELETED"

\* conn.DeleteInput
resourceAwsMediaLiveInputDelete ==
    /\ pc = "idle" /\ d.id # ""
    /\ op' = "Delete"
    /\ \E e \in ApiErrors \cup {""} :
         /\ calls' = <<Call("DeleteInput", "op", e, "")>>
         /\ IF e # ""
            THEN /\ pc' = "done"
                 /\ ret' = IF isAWSErr(e, ErrCodeNotFoundException) THEN "nil" ELSE "error"
            ELSE /\ pc' = "delete_wait" /\ ret' = ""
    /\ targetOccurence' = 0 /\ notfoundTick' = 0
    /\ UNCHANGED <<d, resp, refreshed, request, remote, pureVars>>

\* a mutant of inputDeleteStateConf: ATTACHED is not a pending state
inputDeleteStateConfAttachedUnexpected ==
    [Pending |-> {"DETACHED", "DELETING"}, Target |-> {InputStateDeleted},
     NotFoundChecks |-> 1, ContinuousTargetOccurence |-> 0]

\* the StateChangeConf of waitForMediaLiveInputDeletion
inputDeleteStateConf ==
    [Pending |-> {"DETACHED", "ATTACHED", "DELETING"}, Target |-> {InputStateDeleted},
     NotFoundChecks |-> 1, ContinuousTargetOccurence |-> 0]

\* the closure mediaLiveInputRefreshFunc returns, o being DescribeInput's answer
mediaLiveInputRefreshFunc(o) ==
    IF isAWSErr(o.err, ErrCodeNotFoundException)
    THEN [res |-> "nil", state |-> InputStateDeleted, err |-> ""]
    ELSE IF o.err # ""
    THEN [res |-> "nil", state |-> "", err |-> Errorf(o.err)]
    ELSE IF o.nilOut
    THEN [res |-> "nil", state |-> InputStateDeleted, err |-> ""]
    ELSE [res |-> "obj", state |-> StringValue(o.state), err |-> ""]

\* what waitForMediaLiveInputDeletion makes of the error of WaitForState
waitForMediaLiveInputDeletion(err) ==
    IF err # "" /\ isAWSErr(err, ErrCodeNotFoundException) THEN "" ELSE err

\* one poll of the WaitForState of waitForMediaLiveInputDeletion
waitForMediaLiveInputDeletionPoll ==
    /\ pc = "delete_wait"
    /\ Len(CallsBy("waiter")) < MaxDeletePolls
    /\ \E o \in DescribeInputPolls :
         LET r == mediaLiveInputRefreshFunc(o)
             w == WaitForState(inputDeleteStateConf, r, targetOccurence, notfoundTick)
         IN  /\ calls' = Append(calls, Call("DescribeInput", "waiter", o.err, Observed(o)))
             /\ targetOccurence' = w.occ
             /\ notfoundTick' = w.nf
             /\ refreshed' = r
             /\ IF w.status = "continue"
                THEN pc' = "delete_wait" /\ ret' = ""
                ELSE pc' = "done"
                     /\ ret' = DeleteReturn(waitForMediaLiveInputDeletion(w.err))
    /\ UNCHANGED <<op, d, resp, request, remote, pureVars>>

\* the 30 minutes of the input's deletion waiter expire
waitForMediaLiveInputDeletionTimeout ==
    /\ pc = "delete_wait"
    /\ pc' = "done"
    /\ ret' = DeleteReturn(waitForMediaLiveInputDeletion("TimeoutError"))
    /\ calls' = Append(calls, Expired)
    /\ UNCHANGED <<op, d, resp, targetOccurence, notfoundTick, refreshed, request,
                   remote, pureVars>>

\* the handler has returned and the framework is free to call the next one; an
\* input without an ID, or one that was deleted, is gone from the state
InputReturn ==
    /\ pc = "done"
    /\ pc' = "idle" /\ op' = "" /\ ret' = "" /\ calls' = <<>>
    /\ resp' = NoResponse
    /\ targetOccurence' = 0 /\ notfoundTick' = 0
    /\ refreshed' = NoRefresh /\ request' = NoRequest
    /\ d' = IF d.id = "" \/ (op = "Delete" /\ ret = "nil") THEN NewInput ELSE d
    /\ UNCHANGED <<remote, pureVars>>

InitInput ==
    /\ ResourceAtRest /\ remote = NoRemote
    /\ d \in {NewInput, KnownInput}
    /\ PureAtRest

NextInput ==
    \/ resourceAwsMediaLiveInputCreate
    \/ inputCreateStateConfWaitForState
    \/ inputCreateStateConfTimeout
    \/ resourceAwsMediaLiveInputCreateRead
    \/ resourceAwsMediaLiveInputRead
    \/ resourceAwsMediaLiveInputUpdate
    \/ resourceAwsMediaLiveInputUpdateTags
    \/ resourceAwsMediaLiveInputUpdateRead
    \/ resourceAwsMediaLiveInputDelete
    \/ waitForMediaLiveInputDeletionPoll
    \/ waitForMediaLiveInputDeletionTimeout
    \/ InputReturn

SpecInput == InitInput /\ [][NextInput]_vars

\* SpecInput with the progress the code's scheduling gives: the waiters reach
\* their Timeout and the DescribeInput call of a final Read returns
SpecInputLive ==
    /\ SpecInput
    /\ WF_vars(inputCreateStateConfTimeout)
    /\ WF_vars(waitForMediaLiveInputDeletionTimeout)
    /\ WF_vars(resourceAwsMediaLiveInputCreateRead)
    /\ WF_vars(resourceAwsMediaLiveInputUpdateRead)

(***************************************************************************)
(* Claims about the input resource.                                        *)
(***************************************************************************)
\* C4: the input's Create is past its waiter only if CreateInput succeeded and
\* the last 5 polls all showed DETACHED or ATTACHED; and once a poll failed or
\* showed a state other than CREATING, DETACHED and ATTACHED, Create has
\* returned an error without polling again.
C4_InputCreateAfterFiveTargets ==
    /\ (op = "Create" /\ (ret = "nil" \/ pc = "create_read")) =>
        /\ calls[1].api = "CreateInput" /\ calls[1].err = ""
        /\ Len(WaiterCalls) >= 5
        /\ \A i \in (Len(WaiterCalls) - 4)..Len(WaiterCalls) :
               /\ WaiterCalls[i].err = ""
               /\ WaiterCalls[i].state \in {"DETACHED", "ATTACHED"}
    /\ op = "Create" =>
        \A i \in 1..Len(WaiterCalls) :
            (WaiterCalls[i].err # ""
                \/ WaiterCalls[i].state \notin {"CREATING", "DETACHED", "ATTACHED"})
            => i = Len(WaiterCalls) /\ pc = "done" /\ ret = "error"

\* the input's Create has returned nil after polls that showed CREATING, then
\* DETACHED, then ATTACHED
C4_Witness ==
    /\ op = "Create" /\ ret = "nil" /\ d.id # ""
    /\ \E i, j, k \in 1..Len(WaiterCalls) :
           /\ i < j /\ j < k
           /\ WaiterCalls[i].state = "CREATING"
           /\ WaiterCalls[j].state = "DETACHED"
           /\ WaiterCalls[k].state = "ATTACHED"

\* C5: after a successful Read of an input, destinations has one entry per
\* destination of the response, in the same order, each with the
\* destination's Ip as ip, its Port as port and its Url as url.
C5_DestinationsReflectResponse ==
    (pc = "done" /\ ret = "nil" /\ Last(calls).who = "read" /\ Last(calls).err = "") =>
        /\ Len(d.destinations) = Len(resp.Destinations)
        /\ \A i \in 1..Len(resp.Destinations) :
               /\ d.destinations[i].ip = StringValue(resp.Destinations[i].Ip)
               /\ d.destinations[i].port = StringValue(resp.Destinations[i].Port)
               /\ d.destinations[i].url = StringValue(resp.Destinations[i].Url)

\* a step that is the UpdateInput call of the input's Update
UpdateInputStep == pc = "idle" /\ op' = "Update"

\* the stream_name of some entry of destinations differs between the resource
\* data old and new
StreamNameChanged(old, new) ==
    \E i \in 1..Len(new.destinations) :
        old.destinations[i].stream_name # new.destinations[i].stream_name

\* C18: when Update is called with a changed stream_name, the request of
\* UpdateInput carries one destination per configured entry with the new
\* StreamName; it carries the name exactly when the name has changed and the
\* input_security_groups exactly when they have changed.
C18_UpdateInputRequest ==
    [][UpdateInputStep =>
          /\ StreamNameChanged(d, d') =>
                 /\ Len(request'.Destinations) = Len(d'.destinations)
                 /\ \A i \in 1..Len(d'.destinations) :
                        request'.Destinations[i].StreamName
                            = String(d'.destinations[i].stream_name)
          /\ request'.Name # NilString <=> d'.name # d.name
          /\ request'.InputSecurityGroups # <<>>
                 <=> d'.input_security_groups # d.input_security_groups]_vars

\* C19: in the input's Delete, after DeleteInput succeeded: a last poll that
\* showed DETACHED, ATTACHED or DELETING leaves Delete waiting; Delete has
\* returned nil only if the last poll showed the input in state DELETED; a
\* poll that showed another state, or failed with an error other than
\* NotFoundException, is the last one and Delete has returned an error.
C19_InputDeleteWaits ==
    (op = "Delete" /\ calls[1].err = "") =>
        /\ (/\ Last(calls).who = "waiter" /\ Last(calls).err = ""
            /\ Last(calls).state \in {"DETACHED", "ATTACHED", "DELETING"}) =>
               pc = "delete_wait" /\ ret = ""
        /\ ret = "nil" =>
               /\ WaiterCalls # <<>>
               /\ Last(WaiterCalls).err = ""
               /\ Last(WaiterCalls).state = InputStateDeleted
        /\ \A i \in 1..Len(calls) :
               (/\ calls[i].who = "waiter"
                /\ \/ calls[i].err \notin {"", ErrCodeNotFoundException}
                   \/ calls[i].state \notin {"", "DETACHED", "ATTACHED", "DELETING",
                                             InputStateDeleted}) =>
                   i = Len(calls) /\ pc = "done" /\ ret = "error"

\* the input's Delete has returned nil after polls that showed ATTACHED, then
\* DELETING, then DELETED
C19_Witness ==
    /\ op = "Delete" /\ ret = "nil" /\ Len(WaiterCalls) = 3
    /\ WaiterCalls[1].state = "ATTACHED"
    /\ WaiterCalls[2].state = "DELETING"
    /\ WaiterCalls[3].state = InputStateDeleted

(***************************************************************************)
(* aws_media_package_origin_endpoint.  The attribute authorization is a    *)
(* set of blocks, each with cdn_identifier_secret and secrets_role_arn;    *)
(* manifest_name, origination, the two windows and hls_package are not     *)
(* part of the model.                                                      *)
(***************************************************************************)
EndpointIds == {"ep-1"}

\* the authorization blocks of the model
Authorizations ==
    { [cdn_identifier_secret |-> "secret-1", secrets_role_arn |-> "role-1"],
      [cdn_identifier_secret |-> "secret-2", secrets_role_arn |-> "role-2"] }

\* the configuration of an origin endpoint that is not created yet
NewEndpoint == [id |-> "", endpoint_id |-> "ep-1", channel_id |-> "channel",
                arn |-> "", description |-> "main", url |-> "",
                authorization |-> {}, tags |-> {<<"", "env">>}]

\* the origin endpoints that are already in the Terraform state
KnownEndpoints ==
    {[NewEndpoint EXCEPT !.id = "ep-1", !.arn = "arn:ep-1", !.url = "https://ep-1",
                         !.authorization = a] : a \in {{}} \cup {{x} : x \in Authorizations}}

\* the *mediapackage.Authorization of an authorization block
AuthorizationOf(a) ==
    [CdnIdentifierSecret |-> String(a.cdn_identifier_secret),
     SecretsRoleArn |-> String(a.secrets_role_arn)]

\* the descriptions DescribeOriginEndpoint answers with; Authorization is a
\* pointer, <<>> when nil
EndpointDescriptions ==
    [Arn : {String("arn:ep-1")}, Description : {String("main"), String("backup")},
     Url : {String("https://ep-1")},
     Authorization : {<<>>} \cup {<<AuthorizationOf(a)>> : a \in Authorizations},
     Tags : {{<<"", "env">>}, {<<"", "env">>, <<"aws:", "cloudformation">>}}]

\* what DescribeOriginEndpoint can answer with
DescribeOriginEndpointReads ==
    {[err |-> e, out |-> NoResponse] : e \in ApiErrors}
    \cup {[err |-> "", out |-> x] : x \in EndpointDescriptions}

\* expandAuthorization: nil for an empty set, else the first block
expandAuthorization(set) ==
    IF Cardinality(set) > 0
    THEN <<AuthorizationOf(CHOOSE a \in set : TRUE)>>
    ELSE <<>>

\* flattenAuthorization: one map[string]interface{}, not a list of them
flattenAuthorization(auth) ==
    [type |-> "map",
     cdn_identifier_secret |-> StringValue(auth.CdnIdentifierSecret),
     secrets_role_arn |-> StringValue(auth.SecretsRoleArn)]

\* d.Set of a TypeSet attribute with the value v, old being what the
\* attribute holds: a list or set of blocks is written; any other value is
\* not, the writer either panics on it or returns an error, which Read does
\* not look at
SetOfBlocks(old, v) ==
    IF v.type = "list"
    THEN {[outcome |-> "written", value |-> v.blocks]}
    ELSE {[outcome |-> "panic", value |-> old], [outcome |-> "rejected", value |-> old]}

\* the body of resourceAwsMediaPackageOriginEndpointRead for the answer o of
\* DescribeOriginEndpoint, w being what d.Set("authorization", ...) did when
\* the response has an Authorization
EndpointRead(o, w) ==
    IF o.err # ""
    THEN IF isAWSErr(o.err, ErrCodeNotFoundException)
         THEN [d |-> [d EXCEPT !.id = ""], ret |-> "nil", resp |-> resp]
         ELSE [d |-> d, ret |-> "error", resp |-> resp]
    ELSE IF o.out.Authorization # <<>> /\ w.outcome = "panic"
    THEN [d |-> d, ret |-> "panic", resp |-> o.out]
    ELSE [d |-> [d EXCEPT !.arn = StringValue(o.out.Arn),
                          !.description = StringValue(o.out.Description),
                          !.url = StringValue(o.out.Url),
                          !.authorization = IF o.out.Authorization # <<>>
                                            THEN w.value ELSE @,
                          !.tags = IgnoreAws(o.out.Tags)],
          ret |-> "nil", resp |-> o.out]

\* what d.Set("authorization", flattenAuthorization(resp.Authorization)) can do
\* for the answer o
AuthorizationWrites(o) ==
    IF o.err = "" /\ o.out.Authorization # <<>>
    THEN SetOfBlocks(d.authorization, flattenAuthorization(o.out.Authorization[1]))
    ELSE {[outcome |-> "none", value |-> d.authorization]}

\* input of resourceAwsMediaPackageOriginEndpointCreate
CreateOriginEndpointInput(data) ==
    [api |-> "CreateOriginEndpoint",
     Id |-> String(data.endpoint_id),
     ChannelId |-> String(data.channel_id),
     Description |-> String(data.description),
     Authorization |-> IF data.authorization # {}
                       THEN expandAuthorization(data.authorization) ELSE <<>>,
     Tags |-> IF data.tags # {} THEN IgnoreAws(data.tags) ELSE {}]

\* input of resourceAwsMediaPackageOriginEndpointUpdate
UpdateOriginEndpointInput(data) ==
    [api |-> "UpdateOriginEndpoint",
     Id |-> String(data.endpoint_id),
     Description |-> String(data.description),
     Authorization |-> IF data.authorization # {}
                       THEN expandAuthorization(data.authorization) ELSE <<>>]

\* resourceAwsMediaPackageOriginEndpointCreate up to its Read
resourceAwsMediaPackageOriginEndpointCreate ==
    /\ pc = "idle" /\ d.id = ""
    /\ op' = "Create"
    /\ request' = CreateOriginEndpointInput(d)
    /\ \E e \in ApiErrors \cup {""} : \E id \in EndpointIds :
         /\ calls' = <<Call("CreateOriginEndpoint", "op", e, IF e # "" THEN "" ELSE id)>>
         /\ IF e # ""
            THEN d' = d /\ ret' = "error" /\ pc' = "done"
            ELSE d' = [d EXCEPT !.id = id] /\ ret' = "" /\ pc' = "endpoint_read"
    /\ UNCHANGED <<resp, targetOccurence, notfoundTick, refreshed, remote, pureVars>>

\* the configurations Update can be called with
EndpointChanges ==
    [description : {"main", "backup"},
     authorization : {{}} \cup {{x} : x \in Authorizations}]

\* resourceAwsMediaPackageOriginEndpointUpdate up to its Read
resourceAwsMediaPackageOriginEndpointUpdate ==
    /\ pc = "idle" /\ d.id # ""
    /\ op' = "Update"
    /\ \E c \in EndpointChanges : \E e \in ApiErrors \cup {""} :
         LET new == [d EXCEPT !.description = c.description,
                              !.authorization = c.authorization]
         IN  /\ new # d
             /\ d' = new
             /\ request' = UpdateOriginEndpointInput(new)
             /\ calls' = <<Call("UpdateOriginEndpoint", "op", e, "")>>
             /\ IF e # ""
                THEN ret' = "error" /\ pc' = "done"
                ELSE ret' = "" /\ pc' = "endpoint_read"
    /\ UNCHANGED <<resp, targetOccurence, notfoundTick, refreshed, remote, pureVars>>

\* return resourceAwsMediaPackageOriginEndpointRead(d, meta), the last line of
\* Create and of Update
resourceAwsMediaPackageOriginEndpointFinalRead ==
    /\ pc = "endpoint_read"
    /\ \E o \in DescribeOriginEndpointReads : \E w \in AuthorizationWrites(o) :
         LET r == EndpointRead(o, w)
         IN  /\ d' = r.d /\ ret' = r.ret /\ resp' = r.resp
             /\ calls' = Append(calls, Call("DescribeOriginEndpoint", "read", o.err, ""))
    /\ pc' = "done"
    /\ UNCHANGED <<op, targetOccurence, notfoundTick, refreshed, request, remote,
                   pureVars>>

\* Read called by the framework on an origin endpoint of the state
resourceAwsMediaPackageOriginEndpointRead ==
    /\ pc = "idle" /\ d.id # ""
    /\ op' = "Read"
    /\ \E o \in DescribeOriginEndpointReads : \E w \in AuthorizationWrites(o) :
         LET r == EndpointRead(o, w)
         IN  /\ d' = r.d /\ ret' = r.ret /\ resp' = r.resp
             /\ calls' = <<Call("DescribeOriginEndpoint", "read", o.err, "")>>
    /\ pc' = "done"
    /\ UNCHANGED <<targetOccurence, notfoundTick, refreshed, request, remote,
                   pureVars>>

\* resourceAwsMediaPackageOriginEndpointDelete
resourceAwsMediaPackageOriginEndpointDelete ==
    /\ pc = "idle" /\ d.id # ""
    /\ op' = "Delete"
    /\ \E e \in ApiErrors \cup {""} :
         /\ calls' = <<Call("DeleteOriginEndpoint", "op", e, "")>>
         /\ ret' = IF e = "" \/ isAWSErr(e, ErrCodeNotFoundException)
                   THEN "nil" ELSE "error"
    /\ pc' = "done"
    /\ UNCHANGED <<d, resp, targetOccurence, notfoundTick, refreshed, request, remote,
                   pureVars>>

\* the handler has returned and the framework is free to call the next one; an
\* endpoint without an ID, or one that was deleted, is gone from the state
EndpointReturn ==
    /\ pc = "done"
    /\ pc' = "idle" /\ op' = "" /\ ret' = "" /\ calls' = <<>>
    /\ resp' = NoResponse /\ request' = NoRequest
    /\ d' = IF d.id = "" \/ (op = "Delete" /\ ret = "nil") THEN NewEndpoint ELSE d
    /\ UNCHANGED <<targetOccurence, notfoundTick, refreshed, remote, pureVars>>

InitEndpoint ==
    /\ ResourceAtRest /\ remote = NoRemote
    /\ d \in {NewEndpoint} \cup KnownEndpoints
    /\ PureAtRest

NextEndpoint ==
    \/ resourceAwsMediaPackageOriginEndpointCreate
    \/ resourceAwsMediaPackageOriginEndpointUpdate
    \/ resourceAwsMediaPackageOriginEndpointFinalRead
    \/ resourceAwsMediaPackageOriginEndpointRead
    \/ resourceAwsMediaPackageOriginEndpointDelete
    \/ EndpointReturn

SpecEndpoint == InitEndpoint /\ [][NextEndpoint]_vars

(***************************************************************************)
(* Claims about the origin endpoint resource.                              *)
(***************************************************************************)
\* C20: after a Read that succeeded, authorization holds the response's
\* cdn_identifier_secret and secrets_role_arn when the response has an
\* Authorization, and is empty when it has none.
C20_AuthorizationReflectsResponse ==
    (pc = "done" /\ ret = "nil" /\ Last(calls).who = "read" /\ Last(calls).err = "") =>
        d.authorization =
            IF resp.Authorization = <<>> THEN {}
            ELSE {[cdn_identifier_secret |->
                       StringValue(resp.Authorization[1].CdnIdentifierSecret),
                   secrets_role_arn |->
                       StringValue(resp.Authorization[1].SecretsRoleArn)]}

(***************************************************************************)
(* token.Canonicalize.  A string is the sequence of its pieces: the        *)
(* delimiters ":" and "/" and the words between them, so that Parse's      *)
(* SplitN and Canonicalize's Split and Join work on the text itself.       *)
(***************************************************************************)
HasPrefix(s, prefix) ==
    Len(s) >= Len(prefix) /\ SubSeq(s, 1, Len(prefix)) = prefix

\* the position of the first sep in s, 0 when there is none
RECURSIVE IndexFrom(_, _, _)
IndexFrom(s, sep, i) ==
    IF i > Len(s) THEN 0
    ELSE IF s[i] = sep THEN i
    ELSE IndexFrom(s, sep, i + 1)

\* strings.SplitN(s, sep, n) for n > 0: at most n substrings, the last one
\* the unsplit rest
RECURSIVE SplitN(_, _, _)
SplitN(s, sep, n) ==
    LET i == IndexFrom(s, sep, 1)
    IN  IF n = 1 \/ i = 0 THEN <<s>>
        ELSE <<SubSeq(s, 1, i - 1)>> \o SplitN(SubSeq(s, i + 1, Len(s)), sep, n - 1)

\* strings.Split(s, sep): all the substrings between the separators
RECURSIVE Split(_, _)
Split(s, sep) ==
    LET i == IndexFrom(s, sep, 1)
    IN  IF i = 0 THEN <<s>>
        ELSE <<SubSeq(s, 1, i - 1)>> \o Split(SubSeq(s, i + 1, Len(s)), sep)

\* strings.Join(elems, sep)
RECURSIVE Join(_, _)
Join(elems, sep) ==
    IF elems = <<>> THEN <<>>
    ELSE IF Len(elems) = 1 THEN elems[1]
    ELSE elems[1] \o <<sep>> \o Join(Tail(elems), sep)

\* awsarn.Parse
Parse(arn) ==
    IF ~HasPrefix(arn, <<"arn", ":">>)
    THEN [err |-> "invalid prefix"]
    ELSE LET sections == SplitN(arn, ":", 6)
         IN  IF Len(sections) # 6
             THEN [err |-> "not enough sections"]
             ELSE [err |-> "", Partition |-> sections[2], Service |-> sections[3],
                   Region |-> sections[4], AccountID |-> sections[5],
                   Resource |-> sections[6]]

\* a mutant of checkPartition: every partition is recognised
checkPartitionAny(partition) == ""

\* checkPartition: "" for nil
checkPartition(partition) ==
    IF partition \in {<<"aws">>, <<"aws-cn">>, <<"aws-us-gov">>}
    THEN "" ELSE "partition is not recognized"

\* a mutant of CanonicalizeSts: the session name is kept in the role
CanonicalizeStsKeepsSession(arn, parsed, parts) ==
    IF parts[1] = <<"federated-user">> THEN [val |-> arn, err |-> ""]
    ELSE IF parts[1] = <<"assumed-role">>
    THEN IF Len(parts) < 3
         THEN [val |-> <<>>, err |-> "assumed-role arn does not have a role"]
         ELSE LET role == Join(SubSeq(parts, 2, Len(parts)), "/")
              IN  [val |-> <<"arn", ":">> \o parsed.Partition \o <<":", "iam", ":", ":">>
                           \o parsed.AccountID \o <<":", "role", "/">> \o role,
                   err |-> ""]
    ELSE [val |-> <<>>, err |-> "unrecognized resource for service sts"]

\* case "sts" of Canonicalize
CanonicalizeSts(arn, parsed, parts) ==
    IF parts[1] = <<"federated-user">> THEN [val |-> arn, err |-> ""]
    ELSE IF parts[1] = <<"assumed-role">>
    THEN IF Len(parts) < 3
         THEN [val |-> <<>>, err |-> "assumed-role arn does not have a role"]
         ELSE LET role == Join(SubSeq(parts, 2, Len(parts) - 1), "/")
              IN  [val |-> <<"arn", ":">> \o parsed.Partition \o <<":", "iam", ":", ":">>
                           \o parsed.AccountID \o <<":", "role", "/">> \o role,
                   err |-> ""]
    ELSE [val |-> <<>>, err |-> "unrecognized resource for service sts"]

\* a mutant of CanonicalizeIam: the account root is not among the resources
CanonicalizeIamNoRoot(arn, parts) ==
    IF parts[1] \in {<<"role">>, <<"user">>}
    THEN [val |-> arn, err |-> ""]
    ELSE [val |-> <<>>, err |-> "unrecognized resource for service iam"]

\* case "iam" of Canonicalize
CanonicalizeIam(arn, parts) ==
    IF parts[1] \in {<<"role">>, <<"user">>, <<"root">>}
    THEN [val |-> arn, err |-> ""]
    ELSE [val |-> <<>>, err |-> "unrecognized resource for service iam"]

Canonicalize(arn) ==
    LET parsed == Parse(arn)
    IN  IF parsed.err # "" THEN [val |-> <<>>, err |-> "arn is invalid"]
        ELSE IF checkPartition(parsed.Partition) # ""
        THEN [val |-> <<>>, err |-> "arn does not have a recognized partition"]
        ELSE LET parts == Split(parsed.Resource, "/")
             IN  IF parsed.Service = <<"sts">> THEN CanonicalizeSts(arn, parsed, parts)
                 ELSE IF parsed.Service = <<"iam">> THEN CanonicalizeIam(arn, parts)
                 ELSE [val |-> <<>>, err |-> "not a valid service for identities"]

\* The inputs: what an ARN is written from.  The first word, then the
\* partition, service, region, account and resource, of which the first
\* `sections` pieces are written, joined by ":"; the resource is written from
\* its '/'-separated segments.
ArnHeads == {<<"arn">>, <<"urn">>}
ArnPartitions == {<<"aws">>, <<"aws-cn">>, <<"aws-us-gov">>, <<"aws-iso">>}
ArnServices == {<<"sts">>, <<"iam">>, <<"s3">>}
ArnRegions == {<<>>, <<"eu-west-1">>}
ArnAccounts == {<<"123456789012">>}
ArnKinds == {<<"assumed-role">>, <<"federated-user">>, <<"role">>, <<"user">>,
             <<"root">>, <<"group">>}
\* the segments after the first: a name, an empty segment, a name with a colon
ArnSegments == {<<"Bob">>, <<>>, <<"a", ":", "b">>}

ArnPieces ==
    [head : ArnHeads, partition : ArnPartitions, service : ArnServices,
     region : ArnRegions, account : ArnAccounts, kind : ArnKinds,
     rest : SeqsUpTo(ArnSegments, MaxSegments), sections : {5, 6}]

\* the text of the ARN written from the pieces p
ArnText(p) ==
    Join(SubSeq(<<p.head, p.partition, p.service, p.region, p.account,
                  Join(<<p.kind>> \o p.rest, "/")>>, 1, p.sections), ":")

NoArn == [text |-> <<>>]

ResourceUnused ==
    /\ ResourceAtRest /\ remote = NoRemote
    /\ d = [id |-> ""]

InitArn ==
    /\ ResourceUnused
    /\ \E p \in ArnPieces :
         /\ p.sections < 6 => p.kind = <<"root">> /\ p.rest = <<>>
         /\ arnIn = p @@ [text |-> ArnText(p)]
    /\ canon = NoResult
    /\ fn = "" /\ cfg = <<>> /\ out = NoSlice

\* a call of Canonicalize on the input
CanonicalizeCall ==
    /\ canon = NoResult
    /\ canon' = Canonicalize(arnIn.text)
    /\ UNCHANGED <<resourceVars, arnIn, expandVars>>

NextArn == CanonicalizeCall

SpecArn == InitArn /\ [][NextArn]_vars

(***************************************************************************)
(* Claims about Canonicalize.                                              *)
(***************************************************************************)
\* the input is a parsable ARN of a recognised partition
ParsableRecognised ==
    /\ arnIn.head = <<"arn">> /\ arnIn.sections = 6
    /\ arnIn.partition \in {<<"aws">>, <<"aws-cn">>, <<"aws-us-gov">>}

\* C6: for a parsable assumed-role ARN of service sts in a recognised
\* partition with a role path of at least one segment before the session
\* name, Canonicalize returns arn:P:iam::A:role/ followed by the role path,
\* and no error.
C6_AssumedRoleToIamRole ==
    (canon # NoResult /\ ParsableRecognised /\ arnIn.service = <<"sts">>
        /\ arnIn.kind = <<"assumed-role">> /\ Len(arnIn.rest) >= 2) =>
        /\ canon.err = ""
        /\ canon.val = Join(<<<<"arn">>, arnIn.partition, <<"iam">>, <<>>, arnIn.account,
                              Join(<<<<"role">>>>
                                     \o SubSeq(arnIn.rest, 1, Len(arnIn.rest) - 1), "/")>>,
                            ":")

\* an assumed role with a role path of two segments in a region was converted
C6_Witness ==
    /\ canon # NoResult /\ ParsableRecognised /\ arnIn.service = <<"sts">>
    /\ arnIn.kind = <<"assumed-role">> /\ Len(arnIn.rest) = 3
    /\ arnIn.region # <<>>
    /\ canon.err = ""

\* C7: a parsable ARN of a recognised partition that names an IAM role, user
\* or account root, or an STS federated user, is returned as it is, with no
\* error.
C7_SupportedReturnedUnchanged ==
    (canon # NoResult /\ ParsableRecognised
        /\ \/ arnIn.service = <<"iam">>
              /\ arnIn.kind \in {<<"role">>, <<"user">>, <<"root">>}
           \/ arnIn.service = <<"sts">> /\ arnIn.kind = <<"federated-user">>) =>
        canon = [val |-> arnIn.text, err |-> ""]

\* the ARN of an account root was returned
C7_Witness ==
    /\ canon # NoResult /\ ParsableRecognised
    /\ arnIn.service = <<"iam">> /\ arnIn.kind = <<"root">>
    /\ canon.val = arnIn.text /\ canon.val # <<>>

\* the input is not one of the supported identities
Unsupported ==
    \/ arnIn.head # <<"arn">> \/ arnIn.sections < 6
    \/ arnIn.partition \notin {<<"aws">>, <<"aws-cn">>, <<"aws-us-gov">>}
    \/ arnIn.service \notin {<<"iam">>, <<"sts">>}
    \/ arnIn.service = <<"iam">>
       /\ arnIn.kind \notin {<<"role">>, <<"user">>, <<"root">>}
    \/ arnIn.service = <<"sts">>
       /\ arnIn.kind \notin {<<"federated-user">>, <<"assumed-role">>}
    \/ arnIn.service = <<"sts">> /\ arnIn.kind = <<"assumed-role">>
       /\ 1 + Len(arnIn.rest) < 3

\* C8: Canonicalize returns an empty string and an error exactly for the
\* inputs that are not supported identities; for all others it returns a
\* non-empty string and no error.
C8_ErrorExactlyWhenUnsupported ==
    canon # NoResult =>
        /\ Unsupported => canon.val = <<>> /\ canon.err # ""
        /\ ~Unsupported => canon.val # <<>> /\ canon.err = ""

\* an ARN of an unrecognised partition that is otherwise supported was refused
C8_Witness ==
    /\ canon # NoResult /\ canon.err # ""
    /\ arnIn.head = <<"arn">> /\ arnIn.sections = 6
    /\ arnIn.partition = <<"aws-iso">>
    /\ arnIn.service = <<"iam">> /\ arnIn.kind = <<"role">>

(***************************************************************************)
(* The list-valued expand functions of media_live_channel_structure.go.    *)
(* A Go slice is nil or holds elements.  The set-valued sub-blocks of an    *)
(* element (input_settings, codec_settings, output_group_settings,         *)
(* output_settings) and the string lists of an output are not part of the  *)
(* model.                                                                  *)
(***************************************************************************)
\* var result []*T
NilSlice == [returned |-> TRUE, isNil |-> TRUE, elems |-> <<>>]

\* append(result, e)
append(result, e) ==
    [returned |-> TRUE, isNil |-> FALSE, elems |-> Append(result.elems, e)]

\* for _, v := range list { result = append(result, &T{...}) } of the
\* function f, from the i-th element on; defined below
RECURSIVE RangeAppend(_, _, _, _)

\* aws.Int64(int64(v))
Int64(v) == <<v>>

InputAttachment(r) ==
    [InputAttachmentName |-> String(r.input_attachment_name),
     InputId |-> String(r.input_id)]

expandInputAttachments(inputAttachments) ==
    IF Len(inputAttachments) = 0 THEN NilSlice
    ELSE RangeAppend("expandInputAttachments", inputAttachments, 1, NilSlice)

OutputDestinationSettings(r) ==
    [PasswordParam |-> String(r.password_param),
     StreamName |-> String(r.stream_name),
     Url |-> String(r.url),
     Username |-> String(r.username)]

\* a mutant of expandOutputDestinationSettings: only the first setting is kept
expandOutputDestinationSettingsFirstOnly(destinationSettings) ==
    IF Len(destinationSettings) = 0 THEN NilSlice
    ELSE append(NilSlice, OutputDestinationSettings(destinationSettings[1]))

expandOutputDestinationSettings(destinationSettings) ==
    IF Len(destinationSettings) = 0 THEN NilSlice
    ELSE RangeAppend("expandOutputDestinationSettings", destinationSettings, 1, NilSlice)

OutputDestination(r) ==
    [Id |-> String(r.id),
     Settings |-> expandOutputDestinationSettings(r.settings)]

expandDestinations(destinations) ==
    IF Len(destinations) = 0 THEN NilSlice
    ELSE RangeAppend("expandDestinations", destinations, 1, NilSlice)

AudioDescription(r) ==
    [AudioSelectorName |-> String(r.audio_selector_name),
     Name |-> String(r.name),
     AudioTypeControl |-> String(r.audio_type_control),
     LanguageCodeControl |-> String(r.language_code_control)]

expandAudioDescriptions(audioDescriptions) ==
    IF Len(audioDescriptions) = 0 THEN NilSlice
    ELSE RangeAppend("expandAudioDescriptions", audioDescriptions, 1, NilSlice)

Output(r) ==
    [OutputName |-> String(r.output_name),
     VideoDescriptionName |-> IF r.video_description_name # ""
                              THEN String(r.video_description_name)
                              ELSE NilString]

expandOutputs(outputs) ==
    IF Len(outputs) = 0 THEN NilSlice
    ELSE RangeAppend("expandOutputs", outputs, 1, NilSlice)

OutputGroup(r) ==
    [Name |-> String(r.name),
     Outputs |-> expandOutputs(r.outputs)]

expandOutputGroups(outputGroups) ==
    IF Len(outputGroups) = 0 THEN NilSlice
    ELSE RangeAppend("expandOutputGroups", outputGroups, 1, NilSlice)

VideoDescription(r) ==
    [Height |-> Int64(r.height),
     Name |-> String(r.name),
     RespondToAfd |-> String(r.respond_to_afd),
     ScalingBehavior |-> String(r.scaling_behavior),
     Sharpness |-> Int64(r.sharpness),
     Width |-> Int64(r.width)]

expandVideoDescriptions(videoDescriptions) ==
    IF Len(videoDescriptions) = 0 THEN NilSlice
    ELSE RangeAppend("expandVideoDescriptions", videoDescriptions, 1, NilSlice)

\* the element the loop of the function f builds from the configuration
\* element r
Element(f, r) ==
    CASE f = "expandInputAttachments" -> InputAttachment(r)
      [] f = "expandDestinations" -> OutputDestination(r)
      [] f = "expandOutputDestinationSettings" -> OutputDestinationSettings(r)
      [] f = "expandAudioDescriptions" -> AudioDescription(r)
      [] f = "expandOutputGroups" -> OutputGroup(r)
      [] f = "expandOutputs" -> Output(r)
      [] f = "expandVideoDescriptions" -> VideoDescription(r)

RangeAppend(f, list, i, result) ==
    IF i > Len(list) THEN result
    ELSE RangeAppend(f, list, i + 1, append(result, Element(f, list[i])))

\* The configuration lists of the model, by the function they are handed to.
ConfigNames == {"a", "b"}

InputAttachmentConfigs ==
    [input_attachment_name : ConfigNames, input_id : {"in-1"}]

OutputDestinationSettingsConfigs ==
    [password_param : {"/ml/pw"}, stream_name : ConfigNames,
     url : {"rtmp://10.0.0.9/app"}, username : {"ml"}]

DestinationConfigs ==
    [id : ConfigNames,
     settings : SeqsUpTo(OutputDestinationSettingsConfigs, MaxNested)]

AudioDescriptionConfigs ==
    [audio_selector_name : {"default"}, name : ConfigNames,
     audio_type_control : {"FOLLOW_INPUT"}, language_code_control : {"FOLLOW_INPUT"}]

OutputConfigs ==
    [output_name : ConfigNames, video_description_name : {"", "video"}]

OutputGroupConfigs ==
    [name : {"hls"},
     outputs : SeqsUpTo({o \in OutputConfigs : o.video_description_name # ""},
                        MaxNested)]

VideoDescriptionConfigs ==
    [name : ConfigNames, height : {720}, width : {1280}, sharpness : {50},
     respond_to_afd : {"NONE"}, scaling_behavior : {"DEFAULT"}]

ExpandFunctions ==
    {"expandInputAttachments", "expandDestinations", "expandOutputDestinationSettings",
     "expandAudioDescriptions", "expandOutputGroups", "expandOutputs",
     "expandVideoDescriptions"}

\* the configuration elements of the function f
ConfigsOf(f) ==
    CASE f = "expandInputAttachments" -> InputAttachmentConfigs
      [] f = "expandDestinations" -> DestinationConfigs
      [] f = "expandOutputDestinationSettings" -> OutputDestinationSettingsConfigs
      [] f = "expandAudioDescriptions" -> AudioDescriptionConfigs
      [] f = "expandOutputGroups" -> OutputGroupConfigs
      [] f = "expandOutputs" -> OutputConfigs
      [] f = "expandVideoDescriptions" -> VideoDescriptionConfigs

InitExpand ==
    /\ ResourceUnused
    /\ arnIn = NoArn /\ canon = NoResult
    /\ fn \in ExpandFunctions
    /\ cfg \in SeqsUpTo(ConfigsOf(fn), MaxList)
    /\ out = NoSlice

\* a call of the function f, which returns r for the list of the state
ExpandCall(f, r) ==
    /\ fn = f /\ ~out.returned
    /\ out' = r
    /\ UNCHANGED <<resourceVars, arnVars, fn, cfg>>

NextExpand ==
    \/ ExpandCall("expandInputAttachments", expandInputAttachments(cfg))
    \/ ExpandCall("expandDestinations", expandDestinations(cfg))
    \/ ExpandCall("expandOutputDestinationSettings", expandOutputDestinationSettings(cfg))
    \/ ExpandCall("expandAudioDescriptions", expandAudioDescriptions(cfg))
    \/ ExpandCall("expandOutputGroups", expandOutputGroups(cfg))
    \/ ExpandCall("expandOutputs", expandOutputs(cfg))
    \/ ExpandCall("expandVideoDescriptions", expandVideoDescriptions(cfg))

SpecExpand == InitExpand /\ [][NextExpand]_vars

(***************************************************************************)
(* Claims about the expand functions.                                      *)
(***************************************************************************)
\* the slice s is nil for an empty list and otherwise has one element per
\* element of list, the i-th of which answers From(element, list[i])
ListExpanded(s, list, From(_, _)) ==
    IF list = <<>>
    THEN s.isNil /\ s.elems = <<>>
    ELSE /\ ~s.isNil
         /\ Len(s.elems) = Len(list)
         /\ \A i \in 1..Len(list) : From(s.elems[i], list[i])

\* the element e of the result carries what names the configuration element r
ElementFrom(e, r) ==
    CASE fn = "expandInputAttachments" ->
             e.InputAttachmentName = <<r.input_attachment_name>>
      [] fn = "expandDestinations" ->
             /\ e.Id = <<r.id>>
             /\ ListExpanded(e.Settings, r.settings,
                             LAMBDA x, y : x.StreamName = <<y.stream_name>>)
      [] fn = "expandOutputDestinationSettings" -> e.StreamName = <<r.stream_name>>
      [] fn = "expandAudioDescriptions" -> e.Name = <<r.name>>
      [] fn = "expandOutputGroups" ->
             /\ e.Name = <<r.name>>
             /\ ListExpanded(e.Outputs, r.outputs,
                             LAMBDA x, y : x.OutputName = <<y.output_name>>)
      [] fn = "expandOutputs" -> e.OutputName = <<r.output_name>>
      [] fn = "expandVideoDescriptions" -> e.Name = <<r.name>>

\* C9: each of the seven list-valued expand functions returns nil for an empty
\* list and otherwise a list of the same length whose i-th element is built
\* from the i-th configuration element; the same holds of the lists nested in
\* destinations and output groups.
C9_ExpandKeepsLengthAndOrder ==
    out.returned => ListExpanded(out, cfg, ElementFrom)

\* expandDestinations was called on destinations of which two differ and one
\* has a setting
C9_Witness ==
    /\ out.returned /\ fn = "expandDestinations"
    /\ Len(cfg) = MaxList
    /\ cfg[1].id # cfg[2].id
    /\ \E i \in 1..Len(cfg) : cfg[i].settings # <<>>

====
